---- MODULE Spec2Model ----
(***************************************************************************)
(* A model of jsonresponse.to_json (src/jsonresponse/__init__.py): the     *)
(* decorator that renders a view's return value, or the fault it raises,   *)
(* as a JSON / JSONP HttpResponse.                                         *)
(*                                                                         *)
(* One to_json instance is modelled.  It wraps two handlers: the free      *)
(* function hello(request) and the method View.render(self, request).      *)
(* A call of a wrapped handler (the closure `wrapper`) is one action.      *)
(***************************************************************************)
EXTENDS Integers, Sequences, FiniteSets, TLC

(* Longest sequence a handler returns. *)
MaxLen == 2

VARIABLES
    serializer_type,  \* self.serializer_type
    error_code,       \* self.error_code
    kwargs,           \* self.kwargs, the extra json.dumps options
    DEFAULT_DEBUG,    \* module global, read from the settings at import
    CALLBACK_NAME,    \* module global, read from the settings at import
    method,           \* self.method, the memoized dispatch decision
    pc,               \* "idle", or "done" while the caller holds a result
    call,             \* the wrapper call just made: f, args, what f does
    outcome           \* what that call gave back to its caller

vars == <<serializer_type, error_code, kwargs, DEFAULT_DEBUG, CALLBACK_NAME,
          method, pc, call, outcome>>

(***************************************************************************)
(* Python values.  Every value is a record [t, v]; text is a sequence of   *)
(* chunks, a chunk being a run of plain ASCII or one special character.    *)
(***************************************************************************)
None == [t |-> "none", v |-> <<>>]
JInt(n) == [t |-> "int", v |-> n]
JStr(chunks) == [t |-> "str", v |-> chunks]
JList(items) == [t |-> "list", v |-> items]
JDict(pairs) == [t |-> "dict", v |-> pairs]
Pair(k, val) == [k |-> k, val |-> val]
Obj(name) == [t |-> "obj", v |-> name]

(* One non-ASCII character, named by its \u escape, and the double quote. *)
EAcute == "u00e9"
Quote == "\""

(***************************************************************************)
(* json.dumps as python 2.7 computes it.                                   *)
(***************************************************************************)
NonAscii == {EAcute}

(* The UTF-8 bytes of a non-ASCII character, as ensure_ascii=False writes it. *)
Utf8(c) == IF c = EAcute THEN "\\xc3\\xa9" ELSE c

(* One chunk of a string inside the quotes. *)
EscapeChunk(c, ensure_ascii) ==
    IF c = Quote THEN "\\\""
    ELSE IF c \in NonAscii
         THEN (IF ensure_ascii THEN "\\" \o c ELSE Utf8(c))
         ELSE c

RECURSIVE EscapeChunks(_, _)
EscapeChunks(chunks, ensure_ascii) ==
    IF chunks = <<>> THEN ""
    ELSE EscapeChunk(Head(chunks), ensure_ascii)
         \o EscapeChunks(Tail(chunks), ensure_ascii)

EncodeString(chunks, ensure_ascii) ==
    "\"" \o EscapeChunks(chunks, ensure_ascii) \o "\""

RECURSIVE Spaces(_)
Spaces(n) == IF n <= 0 THEN "" ELSE " " \o Spaces(n - 1)

(* indent < 0 stands for indent=None. *)
NewlineIndent(kw, level) ==
    IF kw.indent < 0 THEN "" ELSE "\n" \o Spaces(kw.indent * level)

RECURSIVE JoinStrings(_, _)
JoinStrings(strs, sep) ==
    IF strs = <<>> THEN ""
    ELSE IF Len(strs) = 1 THEN strs[1]
    ELSE strs[1] \o sep \o JoinStrings(Tail(strs), sep)

(* What the encoder accepts: an object that is no dict, list, string or     *)
(* number makes json.dumps raise TypeError.                                 *)
RECURSIVE IsSerializable(_)
IsSerializable(val) ==
    CASE val.t \in {"none", "int", "str"} -> TRUE
      [] val.t = "list" -> \A i \in 1..Len(val.v) : IsSerializable(val.v[i])
      [] val.t = "dict" -> \A i \in 1..Len(val.v) : IsSerializable(val.v[i].val)
      [] OTHER -> FALSE

RECURSIVE Encode(_, _, _)
Encode(val, kw, level) ==
    CASE val.t = "none" -> "null"
      [] val.t = "int" -> ToString(val.v)
      [] val.t = "str" -> EncodeString(val.v, kw.ensure_ascii)
      [] val.t = "list" ->
            IF val.v = <<>> THEN "[]"
            ELSE "[" \o NewlineIndent(kw, level + 1)
                 \o JoinStrings([i \in 1..Len(val.v) |-> Encode(val.v[i], kw, level + 1)],
                                kw.item_separator \o NewlineIndent(kw, level + 1))
                 \o NewlineIndent(kw, level) \o "]"
      [] val.t = "dict" ->
            IF val.v = <<>> THEN "{}"
            ELSE "{" \o NewlineIndent(kw, level + 1)
                 \o JoinStrings([i \in 1..Len(val.v) |->
                                    EncodeString(val.v[i].k, kw.ensure_ascii)
                                    \o kw.key_separator
                                    \o Encode(val.v[i].val, kw, level + 1)],
                                kw.item_separator \o NewlineIndent(kw, level + 1))
                 \o NewlineIndent(kw, level) \o "}"

dumps(val, kw) == Encode(val, kw, 0)

(* The options json.dumps works with when the constructor gave none. *)
DumpsDefaults ==
    [indent |-> -1, ensure_ascii |-> TRUE, item_separator |-> ", ", key_separator |-> ": "]

(***************************************************************************)
(* Faults.  module / owner hold NoAttr when the fault has no such          *)
(* attribute (an instance of a builtin exception has no __module__).       *)
(***************************************************************************)
NoAttr == "<no attribute>"

Fault(cls, module, owner, msg, notfound) ==
    [cls |-> cls, module |-> module, owner |-> owner, msg |-> msg, notfound |-> notfound]

NoFault == Fault("", NoAttr, NoAttr, <<>>, FALSE)

(* The faults the python runtime raises inside the renderer. *)
IndexError == Fault("IndexError", NoAttr, NoAttr, <<"tuple index out of range">>, FALSE)
AttributeError(what) == Fault("AttributeError", NoAttr, NoAttr, <<what>>, FALSE)
ValueError == Fault("ValueError", NoAttr, NoAttr, <<"invalid literal for int() with base 10">>, FALSE)
TypeError == Fault("TypeError", NoAttr, NoAttr, <<"is not JSON serializable">>, FALSE)

(* The faults a handler or a serialize method raises: instances of          *)
(* Exception, which is what `except Exception` in api catches.              *)
Wooot == Fault("Exception", NoAttr, NoAttr, <<"Wooot!??">>, FALSE)
NotFound == Fault("ObjectDoesNotExist", "django.core.exceptions", NoAttr, <<"Not found">>, TRUE)
UserDoesNotExist == Fault("DoesNotExist", "app.models", "User", <<"no ", Quote, "caf", EAcute, Quote>>, TRUE)
Faults == {Wooot, NotFound, UserDoesNotExist}

(***************************************************************************)
(* Requests and receivers.  GET maps every directive to its value, or to   *)
(* Absent when the query string does not carry it.                         *)
(***************************************************************************)
Absent == "<absent>"
Directives == {"debug", "decode", "format", "callback", "raise", "with_age"}

NoQuery == [k \in Directives |-> Absent]

(* A query string, given as the set of <<directive, value>> it carries. *)
Query(pairs) ==
    [k \in Directives |->
        IF \E p \in pairs : p[1] = k THEN (CHOOSE p \in pairs : p[1] = k)[2] ELSE Absent]

(* The query strings of the doctests, and one or two directives at a time. *)
QueryDicts ==
    { NoQuery,
      Query({<<"debug", "1">>}),
      Query({<<"debug", "1">>, <<"with_age", "1">>}),
      Query({<<"debug", "1">>, <<"format", "jsonp">>}),
      Query({<<"debug", "1">>, <<"format", "jsonp">>, <<"callback", "my_callback">>}),
      Query({<<"debug", "1">>, <<"raise", "1">>}),
      Query({<<"raise", "1">>}),
      Query({<<"raise", "0">>}),
      Query({<<"raise", "abc">>}),
      Query({<<"debug", "TRUE">>}),
      Query({<<"debug", "0">>}),
      Query({<<"decode", "1">>}),
      Query({<<"debug", "0">>, <<"decode", "1">>}),
      Query({<<"format", "jsonp">>}),
      Query({<<"format", "xml">>}),
      Query({<<"format", "jsonp">>, <<"callback", "my_callback">>}),
      Query({<<"callback", "my_callback">>}),
      Query({<<"with_age", "1">>}) }

Request(g) == [kind |-> "request", GET |-> g]
Requests == {Request(g) : g \in QueryDicts}

(* An instance of the class View of the doctest, the receiver of render. *)
View == [kind |-> "view", GET |-> NoQuery]
(* Stands for "no request was taken". *)
NoObject == [kind |-> "none", GET |-> NoQuery]

(* The names that are bound methods of an object. *)
BoundMethods(o) == IF o.kind = "view" THEN {"render", "render_api"} ELSE {}

(* QueryDict.get(key, default) *)
Get(g, key, default) == IF g[key] = Absent THEN default ELSE g[key]

(* str.lower() on the words a directive carries. *)
Lower(word) == IF word = "TRUE" THEN "true" ELSE word

(* int(): the parsed number, or ok = FALSE for a ValueError. *)
ParseInt(word) ==
    CASE word = "0" -> [ok |-> TRUE, n |-> 0]
      [] word = "1" -> [ok |-> TRUE, n |-> 1]
      [] OTHER -> [ok |-> FALSE, n |-> 0]

(***************************************************************************)
(* What handlers return.                                                   *)
(***************************************************************************)
(* Objects with a serialize method.  Bob is the doctest's User('Bob', 10); *)
(* Nobody is a User that is falsy; Ghost's serialize raises NotFound.      *)
ObjectNames == {"Bob", "Nobody", "Ghost"}
Objects == {Obj(n) : n \in ObjectNames}

(* Python truth value. *)
Truthy(val) ==
    CASE val.t = "none" -> FALSE
      [] val.t = "int" -> val.v # 0
      [] val.t \in {"str", "list", "dict"} -> val.v # <<>>
      [] val.t = "obj" -> val.v # "Nobody"

(* isinstance(val, Iterable), and what iterating gives (a dict gives keys). *)
IsIterable(val) == val.t \in {"list", "dict"}
Iterate(val) ==
    IF val.t = "dict" THEN [i \in 1..Len(val.v) |-> JStr(val.v[i].k)] ELSE val.v

Hello == JDict(<<Pair(<<"hello">>, JStr(<<"w", EAcute, "rld">>))>>)
Mixed == JList(<<JStr(<<"a">>), JDict(<<Pair(<<"b">>, JInt(1))>>)>>)
PlainValues == {None, JInt(0), Hello, Mixed}

Elements == {Obj("Bob"), Obj("Nobody"), None}
ElementLists == UNION {[1..n -> Elements] : n \in 0..MaxLen}
ReturnValues == PlainValues \cup Objects \cup {JList(items) : items \in ElementLists}

(* A response the handler built itself. *)
HttpResponse(content, content_type, status) ==
    [content |-> content, content_type |-> content_type, status |-> status]
Redirect == HttpResponse("", "text/html; charset=utf-8", 302)
NoResponse == HttpResponse("", "", 0)

(* What one call of the handler does. *)
Returns(val) == [kind |-> "return", val |-> val, err |-> NoFault, resp |-> NoResponse]
Raises(e) == [kind |-> "raise", val |-> None, err |-> e, resp |-> NoResponse]
Responds(r) == [kind |-> "response", val |-> None, err |-> NoFault, resp |-> r]
Behaviours ==
    {Returns(val) : val \in ReturnValues} \cup {Raises(e) : e \in Faults} \cup {Responds(Redirect)}

(***************************************************************************)
(* o.serialize(req): [ok, val, err].                                       *)
(***************************************************************************)
Ok(val) == [ok |-> TRUE, val |-> val, err |-> NoFault]
Err(e) == [ok |-> FALSE, val |-> None, err |-> e]

(* User.serialize of the doctest. *)
UserSerialize(name, req) ==
    IF req.kind # "request" THEN Err(AttributeError("object has no attribute 'GET'"))
    ELSE IF Get(req.GET, "with_age", Absent) # Absent
         THEN Ok(JDict(<<Pair(<<"age">>, JInt(10)), Pair(<<"name">>, JStr(<<name>>))>>))
         ELSE Ok(JDict(<<Pair(<<"name">>, JStr(<<name>>))>>))

serialize(o, req) ==
    IF o.t # "obj" THEN Err(AttributeError("object has no attribute 'serialize'"))
    ELSE IF o.v = "Ghost" THEN Err(NotFound)
    ELSE UserSerialize(o.v, req)

(***************************************************************************)
(* What a wrapper call gives its caller.  kind is "response" or "raised".  *)
(* The other fields record how it came about: req is the object the        *)
(* renderer took for the request, called whether the handler ran, via the  *)
(* dispatch target that ran, data what was handed to render_data, text     *)
(* what json.dumps made of it, serialized the objects whose serialize was  *)
(* called, in order.                                                       *)
(***************************************************************************)
Outcome(kind, resp, err, req, called, rendered, data, text, log) ==
    [kind |-> kind, resp |-> resp, err |-> err, req |-> req, called |-> called,
     via |-> "", rendered |-> rendered, data |-> data, text |-> text, serialized |-> log]

NoOutcome == Outcome("none", NoResponse, NoFault, NoObject, FALSE, FALSE, None, "", <<>>)

Raised(e, req, called, log) ==
    Outcome("raised", NoResponse, e, req, called, FALSE, None, "", log)

PassedThrough(resp, req) ==
    Outcome("response", resp, NoFault, req, TRUE, FALSE, None, "", <<>>)

Rendered(resp, req, data, text, log) ==
    Outcome("response", resp, NoFault, req, TRUE, TRUE, data, text, log)

(***************************************************************************)
(* to_json.obj_to_response: [ok, data, err, log]; ok = FALSE when a        *)
(* serialize call raised err.                                              *)
(***************************************************************************)
SuccessEnvelope(data) == JDict(<<Pair(<<"data">>, data), Pair(<<"err">>, JInt(0))>>)

Shaped(data, log) == [ok |-> TRUE, data |-> SuccessEnvelope(data), err |-> NoFault, log |-> log]
(* Mutant: a fault of serialize is swallowed and null is rendered. *)
ShapeFailedSwallowed(e, log) == Shaped(None, log)

ShapeFailed(e, log) == [ok |-> FALSE, data |-> None, err |-> e, log |-> log]

(* [o.serialize(req) if obj else None for o in obj] *)
ShapeEach(req, obj) ==
    LET items == Iterate(obj)
        n == Len(items)
        r == [i \in 1..n |-> IF Truthy(obj) THEN serialize(items[i], req) ELSE Ok(None)]
        bad == {i \in 1..n : ~r[i].ok}
        stop == IF bad = {} THEN n ELSE CHOOSE i \in bad : \A j \in bad : i <= j
        log == IF Truthy(obj) THEN [i \in 1..stop |-> items[i]] ELSE <<>>
    IN IF bad = {} THEN Shaped(JList([i \in 1..n |-> r[i].val]), log)
       ELSE ShapeFailed(r[stop].err, log)

(* The shaping of 'objects' mode. *)
ShapeObjects(req, obj) ==
    IF IsIterable(obj) THEN ShapeEach(req, obj)
    ELSE IF Truthy(obj)
         THEN LET r == serialize(obj, req)
              IN IF r.ok THEN Shaped(r.val, <<obj>>) ELSE ShapeFailed(r.err, <<obj>>)
         ELSE Shaped(None, <<>>)

(* Mutant: every mode shapes the value. *)
obj_to_response_shaping(req, obj) == ShapeObjects(req, obj)

obj_to_response(req, obj) ==
    IF serializer_type = "objects" THEN ShapeObjects(req, obj) ELSE Shaped(obj, <<>>)

(***************************************************************************)
(* to_json.err_to_response                                                 *)
(***************************************************************************)
err_to_response(err) ==
    LET module == IF err.module # NoAttr THEN err.module \o "." ELSE ""
        err_module == IF err.owner # NoAttr THEN module \o err.owner \o "." ELSE module
        err_class == err_module \o err.cls
        err_desc == err.msg
    IN JDict(<<Pair(<<"err_class">>, JStr(<<err_class>>)),
               Pair(<<"err_desc">>, JStr(err_desc)),
               Pair(<<"data">>, None),
               Pair(<<"err">>, JInt(1))>>)

(***************************************************************************)
(* to_json.render_data                                                     *)
(***************************************************************************)
TrueWords == {"true", "t", "1", "on"}

(* Mutant: a debug or decode directive overrides the process-wide default. *)
DebugOnOverriding(req) ==
    IF Get(req.GET, "debug", Absent) # Absent \/ Get(req.GET, "decode", Absent) # Absent
    THEN \/ Lower(Get(req.GET, "debug", "false")) \in TrueWords
         \/ Lower(Get(req.GET, "decode", "0")) \in TrueWords
    ELSE DEFAULT_DEBUG

(* The local `debug` of render_data. *)
DebugOn(req) ==
    \/ DEFAULT_DEBUG
    \/ Lower(Get(req.GET, "debug", "false")) \in TrueWords
    \/ Lower(Get(req.GET, "decode", "0")) \in TrueWords

(* Mutant: the callback directive is not read. *)
JsonpCallbackDefault(req) == CALLBACK_NAME

(* The local `jsonp_cb` of render_data. *)
JsonpCallback(req) == Get(req.GET, "callback", CALLBACK_NAME)

render_data(req, data, status, log) ==
    IF req.kind # "request"
    THEN Raised(AttributeError("object has no attribute 'GET'"), req, TRUE, log)
    ELSE
    LET debug == DebugOn(req)
        format == Get(req.GET, "format", "json")
        jsonp_cb == JsonpCallback(req)
        kw == IF debug THEN [kwargs EXCEPT !.indent = 4, !.ensure_ascii = FALSE] ELSE kwargs
    IN IF ~IsSerializable(data) THEN Raised(TypeError, req, TRUE, log)
       ELSE
       LET text == dumps(data, kw)
           plain == IF format = "jsonp" THEN jsonp_cb \o "(" \o text \o ");" ELSE text
           content_type == IF format = "jsonp" THEN "application/javascript"
                           ELSE "application/json"
       IN Rendered(HttpResponse(plain, content_type \o "; charset=UTF-8", status),
                   req, data, text, log)

(***************************************************************************)
(* to_json.api and the four dispatch targets                               *)
(***************************************************************************)
(* Mutant: no special status for a missing entity. *)
ErrorStatusConfigured(e) == error_code

(* The status of an error response. *)
ErrorStatus(e) == IF e.notfound THEN 404 ELSE error_code

api(req, does) ==
    LET shaped == obj_to_response(req, does.val)
        faulted == does.kind = "raise" \/ (does.kind = "return" /\ ~shaped.ok)
        e == IF does.kind = "raise" THEN does.err ELSE shaped.err
        log == IF does.kind = "return" THEN shaped.log ELSE <<>>
        raise == ParseInt(Get(req.GET, "raise", "0"))
    IN IF does.kind = "response" THEN PassedThrough(does.resp, req)
       ELSE IF ~faulted THEN render_data(req, shaped.data, 200, log)
       ELSE IF req.kind # "request"
            THEN Raised(AttributeError("object has no attribute 'method'"), req, TRUE, log)
       ELSE IF ~raise.ok THEN Raised(ValueError, req, TRUE, log)
       ELSE IF raise.n # 0 THEN Raised(e, req, TRUE, log)
       ELSE render_data(req, err_to_response(e), ErrorStatus(e), log)

api_func(args, does) ==
    IF Len(args) < 1 THEN Raised(IndexError, NoObject, FALSE, <<>>)
    ELSE api(args[1], does)

api_method(args, does) ==
    IF Len(args) < 2 THEN Raised(IndexError, NoObject, FALSE, <<>>)
    ELSE api(args[2], does)

plain(args, at, does) ==
    IF does.kind = "raise" THEN Raised(does.err, NoObject, TRUE, <<>>)
    ELSE IF does.kind = "response" THEN PassedThrough(does.resp, NoObject)
    ELSE IF Len(args) < at THEN Raised(IndexError, NoObject, TRUE, <<>>)
    ELSE render_data(args[at], does.val, 200, <<>>)

plain_method(args, does) == plain(args, 2, does)

(* Mutant: the function target of plain mode goes through api. *)
plain_func_wrapping(args, does) == api_func(args, does)

plain_func(args, does) == plain(args, 1, does)

(***************************************************************************)
(* to_json.__call__: the closure `wrapper` around handler f                *)
(***************************************************************************)
Targets == {"plain_func", "plain_method", "api_func", "api_method"}

Dispatch(target, args, does) ==
    LET out == CASE target = "plain_func" -> plain_func(args, does)
                 [] target = "plain_method" -> plain_method(args, does)
                 [] target = "api_func" -> api_func(args, does)
                 [] target = "api_method" -> api_method(args, does)
    IN [out EXCEPT !.via = target]

AsFunction == IF serializer_type = "plain" THEN "plain_func" ELSE "api_func"
AsMethod == IF serializer_type = "plain" THEN "plain_method" ELSE "api_method"

(* getattr(getattr(args[0], f.__name__, None), "im_self", False) *)
IsBoundMethodOf(f, receiver) == f \in BoundMethods(receiver)

(* Mutant: a first call without positional arguments leaves self.method unset. *)
DetectForgetful(f, args, does) ==
    IF args = <<>>
    THEN [method |-> "None", outcome |-> Raised(IndexError, NoObject, FALSE, <<>>)]
    ELSE LET target == IF IsBoundMethodOf(f, args[1]) THEN AsMethod ELSE AsFunction
         IN [method |-> target, outcome |-> Dispatch(target, args, does)]

(* The first call: choose the dispatch target, keep it in self.method, run it. *)
(* Without positional arguments self.method is set and then args[0] fails.    *)
Detect(f, args, does) ==
    IF args = <<>>
    THEN [method |-> AsFunction, outcome |-> Raised(IndexError, NoObject, FALSE, <<>>)]
    ELSE LET target == IF IsBoundMethodOf(f, args[1]) THEN AsMethod ELSE AsFunction
         IN [method |-> target, outcome |-> Dispatch(target, args, does)]

(* Mutant: the dispatch target is chosen anew on every call. *)
wrapper_redetecting(f, args, does) == Detect(f, args, does)

wrapper(f, args, does) ==
    IF method # "None"
    THEN [method |-> method, outcome |-> Dispatch(method, args, does)]
    ELSE Detect(f, args, does)

(***************************************************************************)
(* The state machine                                                       *)
(***************************************************************************)
SerializerTypes == {"plain", "api", "objects"}
ErrorCodes == {500, 403}
CallbackNames == {"callback", "jsonp_cb"}

NoCall == [f |-> "", args |-> <<>>, request |-> NoObject, does |-> Responds(NoResponse),
           method_before |-> "None"]

Init ==
    /\ serializer_type \in SerializerTypes
    /\ error_code \in ErrorCodes
    /\ kwargs = DumpsDefaults
    /\ DEFAULT_DEBUG \in BOOLEAN
    /\ CALLBACK_NAME \in CallbackNames
    /\ method = "None"
    /\ pc = "idle"
    /\ call = NoCall
    /\ outcome = NoOutcome

(* One call of the wrapper around the wrapped handler f, carrying request. *)
Invoke(f, args, request, does) ==
    /\ pc = "idle"
    /\ LET r == wrapper(f, args, does)
       IN /\ method' = r.method
          /\ outcome' = r.outcome
    /\ call' = [f |-> f, args |-> args, request |-> request, does |-> does,
                method_before |-> method]
    /\ pc' = "done"
    /\ UNCHANGED <<serializer_type, error_code, kwargs, DEFAULT_DEBUG, CALLBACK_NAME>>

(* hello(request), or hello(request=request) *)
CallHello ==
    \E request \in Requests, does \in Behaviours, positional \in BOOLEAN :
        Invoke("hello", IF positional THEN <<request>> ELSE <<>>, request, does)

(* view.render(request), or view.render(request=request) *)
CallRender ==
    \E request \in Requests, does \in Behaviours, positional \in BOOLEAN :
        Invoke("render", IF positional THEN <<View, request>> ELSE <<View>>, request, does)

(* The caller takes the response, or the fault, and goes on. *)
Return ==
    /\ pc = "done"
    /\ pc' = "idle"
    /\ call' = NoCall
    /\ outcome' = NoOutcome
    /\ UNCHANGED <<serializer_type, error_code, kwargs, DEFAULT_DEBUG, CALLBACK_NAME, method>>

Next == CallHello \/ CallRender \/ Return

Spec == Init /\ [][Next]_vars

(***************************************************************************)
(* Properties.                                                             *)
(*                                                                         *)
(* The properties about rendering speak of a call in which the renderer    *)
(* has the request in hand (HasRequest): the dispatch target that ran took *)
(* it from the position where the call carries it.  What happens when the  *)
(* memoized target does not fit the call is the subject of C6 and C10.     *)
(***************************************************************************)
Done == pc = "done"
HasRequest == outcome.req.kind = "request"
Directive(k) == outcome.req.GET[k]
HandlerRaised == Done /\ outcome.called /\ call.does.kind = "raise"
HandlerReturned == Done /\ outcome.called /\ call.does.kind = "return"
InApi == outcome.via \in {"api_func", "api_method"}
InPlain == outcome.via \in {"plain_func", "plain_method"}
IsResponse == outcome.kind = "response"
IsRaised == outcome.kind = "raised"

(* A dict as the mapping it is, whatever the order of its keys. *)
Mapping(d) == {d.v[i] : i \in 1..Len(d.v)}
SameDict(d, e) ==
    /\ d.t = "dict" /\ e.t = "dict"
    /\ Len(d.v) = Len(e.v)
    /\ Mapping(d) = Mapping(e)

(* <qualified name of E>: namespace, owner if any, kind. *)
QualifiedName(e) ==
    (IF e.module = NoAttr THEN "" ELSE e.module \o ".")
    \o (IF e.owner = NoAttr THEN "" ELSE e.owner \o ".")
    \o e.cls

ErrorEnvelope(e) ==
    JDict(<<Pair(<<"err">>, JInt(1)),
            Pair(<<"err_class">>, JStr(<<QualifiedName(e)>>)),
            Pair(<<"err_desc">>, JStr(e.msg)),
            Pair(<<"data">>, None)>>)

Envelope(data) == JDict(<<Pair(<<"err">>, JInt(0)), Pair(<<"data">>, data)>>)

StatusFor(e) == IF e.notfound THEN 404 ELSE error_code

DebugOptions == [kwargs EXCEPT !.indent = 4, !.ensure_ascii = FALSE]
DebugRendered == outcome.text = dumps(outcome.data, DebugOptions)
CompactRendered == outcome.text = dumps(outcome.data, kwargs)

(* C1: in Api or Objects mode, when the handler raises E and the request    *)
(* carries no raise directive, a response comes back whose data is the      *)
(* error envelope of E; its status is 404 for an 'entity does not exist'    *)
(* fault whatever error_code is, and error_code for every other fault.      *)
C1_ErrorEnvelope ==
    (HandlerRaised /\ InApi /\ HasRequest /\ Directive("raise") = Absent) =>
        /\ IsResponse
        /\ outcome.rendered
        /\ SameDict(outcome.data, ErrorEnvelope(call.does.err))
        /\ outcome.resp.status = StatusFor(call.does.err)

C1_Witness ==
    /\ HandlerRaised /\ InApi /\ HasRequest /\ Directive("raise") = Absent
    /\ call.does.err = UserDoesNotExist
    /\ error_code = 403
    /\ outcome.resp.status = 404

(* C2: in Api or Objects mode, when the handler raises, the handler's own   *)
(* fault reaches the caller and nothing is rendered if the raise directive  *)
(* is set; in every other case a response comes back and no fault reaches   *)
(* the caller.                                                              *)
RaiseDirectiveSet == Directive("raise") \notin {Absent, "0"}

C2_RaiseDirectiveDecides ==
    (HandlerRaised /\ InApi /\ HasRequest) =>
        IF RaiseDirectiveSet
        THEN IsRaised /\ outcome.err = call.does.err /\ ~outcome.rendered
        ELSE IsResponse

(* C3: Plain mode never wraps and never catches.  A fault of the handler    *)
(* reaches the caller as it is and nothing is rendered, whatever the        *)
(* request carries; a returned value V that json can encode is rendered as  *)
(* json(V), without envelope, with status 200.                              *)
C3_PlainNeverWrapsNorCatches ==
    (Done /\ InPlain /\ outcome.called) =>
        /\ call.does.kind = "raise" =>
              IsRaised /\ outcome.err = call.does.err /\ ~outcome.rendered
        /\ (call.does.kind = "return" /\ HasRequest /\ IsSerializable(call.does.val)) =>
              /\ IsResponse
              /\ outcome.rendered
              /\ outcome.data = call.does.val
              /\ outcome.text \in {dumps(call.does.val, kwargs),
                                   dumps(call.does.val, DebugOptions)}
              /\ outcome.resp.status = 200

C3_Witness ==
    /\ Done /\ InPlain
    /\ call.does = Raises(Wooot)
    /\ call.request.GET["raise"] = "0"
    /\ IsRaised /\ outcome.err = Wooot

(* C4: in Api mode a returned value V goes into the success envelope as it  *)
(* is: serialize is never called, and when json can encode V the response   *)
(* carries {err: 0, data: V} with status 200.                               *)
C4_ApiPassesValueUnshaped ==
    (HandlerReturned /\ serializer_type = "api" /\ HasRequest) =>
        /\ outcome.serialized = <<>>
        /\ IsSerializable(call.does.val) =>
              /\ IsResponse
              /\ outcome.rendered
              /\ SameDict(outcome.data, Envelope(call.does.val))
              /\ outcome.resp.status = 200

C4_Witness ==
    /\ HandlerReturned /\ serializer_type = "api" /\ HasRequest
    /\ call.does.val = Mixed
    /\ IsResponse
    /\ SameDict(outcome.data, Envelope(Mixed))

(* C5: in Objects mode the data of the success envelope is, for a sequence, *)
(* the sequence of the same length in which a truthy element o gives        *)
(* o.serialize(request) and a falsy element gives null without being        *)
(* serialized; for a truthy single object its serialize(request); for a     *)
(* falsy value null.                                                        *)
ShapeOfClaim(val, req) ==
    IF val.t = "list"
    THEN JList([i \in 1..Len(val.v) |->
                   IF Truthy(val.v[i]) THEN serialize(val.v[i], req).val ELSE None])
    ELSE IF Truthy(val) THEN serialize(val, req).val ELSE None

SerializedOfClaim(val) ==
    IF val.t = "list" THEN SelectSeq(val.v, Truthy)
    ELSE IF Truthy(val) THEN <<val>> ELSE <<>>

(* The values C5 speaks of: sequences of objects and None, one object whose *)
(* serialize returns, a falsy value.                                        *)
InScopeOfC5(val) ==
    \/ val.t = "list" /\ \A i \in 1..Len(val.v) : val.v[i].t \in {"obj", "none"}
    \/ val.t = "obj" /\ val.v # "Ghost"
    \/ ~Truthy(val) /\ val.t \in {"none", "int"}

C5_ObjectsShaping ==
    (HandlerReturned /\ serializer_type = "objects" /\ HasRequest
        /\ InScopeOfC5(call.does.val)) =>
        /\ IsResponse
        /\ SameDict(outcome.data, Envelope(ShapeOfClaim(call.does.val, outcome.req)))
        /\ outcome.serialized = SerializedOfClaim(call.does.val)
        /\ outcome.resp.status = 200

(* C6: the calling convention is detected on the first call (function for   *)
(* hello, method for render, whether or not that call succeeds) and then    *)
(* fixed: once self.method is set no step changes it, and every later call  *)
(* runs the target it names and takes the request from its position.        *)
IsFunctionTarget(target) == target \in {"plain_func", "api_func"}
IsMethodTarget(target) == target \in {"plain_method", "api_method"}
Position(target) == IF IsFunctionTarget(target) THEN 1 ELSE 2

C6_DispatchFixedOnFirstCall ==
    [][ /\ method # "None" => method' = method
        /\ (pc' = "done" /\ method = "None") =>
              IF call'.f = "render" THEN IsMethodTarget(method')
              ELSE IsFunctionTarget(method')
        /\ (pc' = "done" /\ method # "None") =>
              /\ outcome'.via = method
              /\ outcome'.req # NoObject =>
                    /\ Len(call'.args) >= Position(method)
                    /\ outcome'.req = call'.args[Position(method)]
      ]_vars

C6_Witness ==
    /\ Done
    /\ call.method_before = "api_func"
    /\ call.f = "render"
    /\ Len(call.args) = 2
    /\ outcome.req = View

(* C7: every rendered response, in every mode, of success and error data    *)
(* alike, has the body <callbackName>(<json>); and the content type         *)
(* application/javascript; charset=UTF-8 when the request carries           *)
(* format=jsonp, callbackName being the callback directive if carried and   *)
(* CALLBACK_NAME otherwise; for any other or no format the body is the      *)
(* JSON text and the content type application/json; charset=UTF-8.          *)
CallbackOfClaim ==
    IF Directive("callback") # Absent THEN Directive("callback") ELSE CALLBACK_NAME

C7_JsonpWrapping ==
    (Done /\ outcome.rendered) =>
        /\ DebugRendered \/ CompactRendered
        /\ IF Directive("format") = "jsonp"
           THEN /\ outcome.resp.content = CallbackOfClaim \o "(" \o outcome.text \o ");"
                /\ outcome.resp.content_type = "application/javascript; charset=UTF-8"
           ELSE /\ outcome.resp.content = outcome.text
                /\ outcome.resp.content_type = "application/json; charset=UTF-8"

C7_Witness ==
    /\ Done /\ outcome.rendered
    /\ call.does.kind = "raise"
    /\ Directive("format") = "jsonp"
    /\ Directive("callback") = Absent
    /\ CALLBACK_NAME = "jsonp_cb"
    /\ serializer_type = "objects"

(* C8 as stated: a debug or decode directive, when carried, decides whether *)
(* the output is debug-rendered (on for true/t/1/on, off for anything       *)
(* else); DEFAULT_DEBUG decides only when neither is carried.               *)
DirectiveOn(word) == word \in {"true", "t", "1", "on", "TRUE", "T", "ON"}

C8_DirectiveOverridesDefault ==
    (Done /\ outcome.rendered) =>
        IF (IF Directive("debug") # Absent \/ Directive("decode") # Absent
            THEN DirectiveOn(Directive("debug")) \/ DirectiveOn(Directive("decode"))
            ELSE DEFAULT_DEBUG)
        THEN DebugRendered
        ELSE CompactRendered

(* C8 amended: the output is debug-rendered exactly when DEFAULT_DEBUG is   *)
(* on, or the debug directive is one of true/t/1/on, or the decode          *)
(* directive is: a directive switches debug rendering on, never off.        *)
C8_DirectiveOnlySwitchesOn ==
    (Done /\ outcome.rendered) =>
        IF DEFAULT_DEBUG \/ DirectiveOn(Directive("debug")) \/ DirectiveOn(Directive("decode"))
        THEN DebugRendered
        ELSE CompactRendered

C8_Witness ==
    /\ Done /\ outcome.rendered
    /\ DEFAULT_DEBUG
    /\ Directive("debug") = "0"
    /\ Directive("decode") = Absent
    /\ DebugRendered /\ ~CompactRendered

(* C9: in Api/Objects mode without raise directive a fault raised while the *)
(* returned value is shaped is rendered as the error envelope of that       *)
(* fault, with the status a handler fault gets; a fault of the JSON         *)
(* encoding is not intercepted in any mode: it reaches the caller and       *)
(* nothing is rendered.                                                     *)
ShapedItems(val) ==
    IF IsIterable(val) THEN Iterate(val) ELSE IF Truthy(val) THEN <<val>> ELSE <<>>

FailingItems(val, req) ==
    {i \in 1..Len(ShapedItems(val)) : ~serialize(ShapedItems(val)[i], req).ok}

FirstShapingFault(val, req) ==
    LET i == CHOOSE i \in FailingItems(val, req) : \A j \in FailingItems(val, req) : i <= j
    IN serialize(ShapedItems(val)[i], req).err

C9_InterceptionScope ==
    (HandlerReturned /\ HasRequest) =>
        /\ (/\ serializer_type = "objects"
            /\ Directive("raise") = Absent
            /\ FailingItems(call.does.val, outcome.req) # {}) =>
              /\ IsResponse
              /\ outcome.rendered
              /\ SameDict(outcome.data,
                          ErrorEnvelope(FirstShapingFault(call.does.val, outcome.req)))
              /\ outcome.resp.status = StatusFor(FirstShapingFault(call.does.val, outcome.req))
        /\ (serializer_type \in {"plain", "api"} /\ ~IsSerializable(call.does.val)) =>
              /\ IsRaised
              /\ outcome.err.cls = "TypeError"
              /\ ~outcome.rendered

C9_Witness ==
    /\ HandlerReturned /\ HasRequest
    /\ serializer_type = "objects"
    /\ call.does.val = Obj("Ghost")
    /\ Directive("raise") = Absent
    /\ error_code = 403
    /\ IsResponse /\ outcome.resp.status = 404

(* C10: the dispatch decision belongs to the to_json instance: it is unset  *)
(* after construction, the first call of either wrapped handler sets it,    *)
(* and every later call of either handler runs the target it names,         *)
(* however that call is made.                                               *)
C10_DecisionOfTheInstance ==
    /\ method = "None"
    /\ [][ pc' = "done" =>
              /\ method' \in Targets
              /\ method \in Targets => (method' = method /\ outcome'.via = method)
         ]_vars

C10_Witness ==
    /\ Done
    /\ call.f = "hello"
    /\ Len(call.args) = 1
    /\ IsMethodTarget(call.method_before)
    /\ outcome.via = call.method_before
    /\ IsRaised /\ outcome.err = IndexError

====
